---- MODULE Spec2Model ----
(***************************************************************************)
(* State-machine model of the two decoders of weather-sdr-decode:          *)
(*   decode_elv_wde1.py  ("protocol A", envelope demodulator, class        *)
(*                        decoder with buf/decoder_state/pulse_len/...)    *)
(*   decode_mebus.py     ("protocol B", pulse-width demodulator)           *)
(* The decoder objects are the records elv and mebus, whose fields carry   *)
(* the attribute names of the Python classes.  Methods are operators from  *)
(* the object (or the attribute they touch) to its new value.              *)
(***************************************************************************)
EXTENDS Integers, Sequences, FiniteSets, TLC

VARIABLES
  elv,      \* decode_elv_wde1.decoder object
  mebus,    \* decode_mebus.decoder object
  stdout,   \* what the last call printed (records / dump strings)
  log,      \* logging messages emitted by the last call
  tx,       \* frame-level harness: the bit sequence handed to decode()
  air,      \* the sample source: what is being transmitted, what is left of it
  hist      \* history of the calls: lines printed for a packet, rejections

vars == <<elv, mebus, stdout, log, tx, air, hist>>

(***************************************************************************)
(* Integer helpers for Python's &, ^ and << on non-negative ints.          *)
(***************************************************************************)
RECURSIVE BitAnd(_, _)
BitAnd(a, b) ==
  IF a = 0 \/ b = 0 THEN 0
  ELSE (a % 2) * (b % 2) + 2 * BitAnd(a \div 2, b \div 2)

RECURSIVE BitXor(_, _)
BitXor(a, b) ==
  IF a = 0 THEN b
  ELSE IF b = 0 THEN a
  ELSE (((a % 2) + (b % 2)) % 2) + 2 * BitXor(a \div 2, b \div 2)

Shl(x, i) == x * 2^i

(***************************************************************************)
(* decode_elv_wde1.py: popbits / expect_eon / decode.                      *)
(* They read and write self.data only, so they are operators on the bit    *)
(* sequence; each returns the new self.data next to its result.            *)
(***************************************************************************)
sensor_types ==
  <<"Thermo", "Thermo/Hygro", "Rain(?)", "Wind(?)", "Thermo/Hygro/Baro",
    "Luminance(?)", "Pyrano(?)", "Kombi">>

sensor_data_count == <<5, 8, 5, 8, 12, 6, 6, 14>>

\* for i in range(0, num): val += self.data.pop(0) << i
RECURSIVE popbits_loop(_, _, _, _)
popbits_loop(data, i, num, val) ==
  IF i >= num THEN [val |-> val, data |-> data, log |-> <<>>]
  ELSE popbits_loop(Tail(data), i + 1, num, val + Shl(Head(data), i))

\* popbits with the length test off by one
popbits_strict(data, num) ==
  IF Len(data) <= num
  THEN [val |-> 0, data |-> data, log |-> <<"data exhausted">>]
  ELSE popbits_loop(data, 0, num, 0)

popbits(data, num) ==
  IF Len(data) < num
  THEN [val |-> 0, data |-> data, log |-> <<"data exhausted">>]
  ELSE popbits_loop(data, 0, num, 0)

expect_eon_any(data) ==
  LET p == popbits(data, 1)
  IN  [ok |-> TRUE, data |-> p.data, log |-> p.log]

expect_eon(data) ==
  LET p == popbits(data, 1)
  IN  IF p.val # 1
      THEN [ok |-> FALSE, data |-> p.data,
            log |-> p.log \o <<"end of nibble is not 1">>]
      ELSE [ok |-> TRUE, data |-> p.data, log |-> p.log]

\* sensor_type = self.popbits(4) & 7
sensor_type_of(nibble) == BitAnd(nibble, 7)

\* the loop "for i in range(0, nibble_count)" of decode, from iteration i on
RECURSIVE read_nibbles(_, _, _, _, _, _, _)
read_nibbles(data, i, nibble_count, dec, check, sum, lg) ==
  IF i >= nibble_count
  THEN [ok |-> TRUE, data |-> data, dec |-> dec, check |-> check,
        sum |-> sum, log |-> lg]
  ELSE LET p == popbits(data, 4)
           e == expect_eon(p.data)
       IN  IF ~e.ok
           THEN [ok |-> FALSE, data |-> e.data, dec |-> dec, check |-> check,
                 sum |-> sum, log |-> lg \o p.log \o e.log]
           ELSE read_nibbles(e.data, i + 1, nibble_count, Append(dec, p.val),
                             BitXor(check, p.val), sum + p.val,
                             lg \o p.log \o e.log)

\* sum += 5 ; sum &= 0xF
computed_sum_plus6(sum) == BitAnd(sum + 6, 15)

computed_sum(sum) == BitAnd(sum + 5, 15)

check_ignored(check) == TRUE

check_ok(check) == check = 0

\* the print statements of decode: one record per emitted frame.  A field
\* that is not printed for the sensor type is the empty tuple.  dec is
\* 1-based here: dec[k + 1] is Python's dec[k].
temperature_swapped(dec) ==
  << IF BitAnd(dec[1], 8) # 0 THEN "-" ELSE "", dec[3] * 10 + dec[4], dec[2] >>

temperature(dec) ==
  << IF BitAnd(dec[1], 8) # 0 THEN "-" ELSE "", dec[4] * 10 + dec[3], dec[2] >>

\* the record with the rain detector following bit 1 of the first nibble
decoder_output_rain_bit(sensor_type, dec) ==
  [ sensor_type   |-> sensor_types[sensor_type + 1],
    address       |-> BitAnd(dec[1], 7),
    temperature   |-> temperature(dec),
    humidity      |-> IF sensor_type = 7 THEN << dec[6] * 10 + dec[5] >>
                      ELSE IF sensor_type = 1 \/ sensor_type = 4
                           THEN << dec[7] * 10 + dec[6], dec[5] >>
                           ELSE << >>,
    wind          |-> IF sensor_type = 7
                      THEN << dec[9] * 10 + dec[8], dec[7] >> ELSE << >>,
    rain_sum      |-> IF sensor_type = 7
                      THEN << dec[12] * 16 * 16 + dec[11] * 16 + dec[10] >>
                      ELSE << >>,
    rain_detector |-> IF sensor_type = 7
                      THEN << BitAnd(dec[1], 2) # 0 >> ELSE << >>,
    pressure      |-> IF sensor_type = 4
                      THEN << 200 + dec[10] * 100 + dec[9] * 10 + dec[8] >>
                      ELSE << >> ]

decoder_output(sensor_type, dec) ==
  [ sensor_type   |-> sensor_types[sensor_type + 1],
    address       |-> BitAnd(dec[1], 7),
    temperature   |-> temperature(dec),
    humidity      |-> IF sensor_type = 7 THEN << dec[6] * 10 + dec[5] >>
                      ELSE IF sensor_type = 1 \/ sensor_type = 4
                           THEN << dec[7] * 10 + dec[6], dec[5] >>
                           ELSE << >>,
    wind          |-> IF sensor_type = 7
                      THEN << dec[9] * 10 + dec[8], dec[7] >> ELSE << >>,
    rain_sum      |-> IF sensor_type = 7
                      THEN << dec[12] * 16 * 16 + dec[11] * 16 + dec[10] >>
                      ELSE << >>,
    rain_detector |-> IF sensor_type = 7
                      THEN << BitAnd(dec[1], 2) = 1 >> ELSE << >>,
    pressure      |-> IF sensor_type = 4
                      THEN << 200 + dec[10] * 100 + dec[9] * 10 + dec[8] >>
                      ELSE << >> ]

decode(data) ==
  LET p0          == popbits(data, 4)
      sensor_type == sensor_type_of(p0.val)
      e0          == expect_eon(p0.data)
      log0        == <<"DECODE">> \o p0.log \o e0.log
  IN  IF ~e0.ok
      THEN [data |-> e0.data, out |-> <<>>, log |-> log0]
      ELSE
        LET r == read_nibbles(e0.data, 0, sensor_data_count[sensor_type + 1],
                              <<>>, BitXor(0, sensor_type), 0 + sensor_type,
                              log0)
        IN  IF ~r.ok
            THEN [data |-> r.data, out |-> <<>>, log |-> r.log]
            ELSE IF ~check_ok(r.check)
            THEN [data |-> r.data, out |-> <<>>,
                  log |-> r.log \o <<"Check is not 0">>]
            ELSE
              LET ps  == popbits(r.data, 4)
                  sum == computed_sum(r.sum)
              IN  IF ps.val # sum
                  THEN [data |-> ps.data, out |-> <<>>,
                        log |-> r.log \o ps.log \o <<"Sum read differs">>]
                  ELSE [data |-> ps.data,
                        out  |-> << decoder_output(sensor_type, r.dec) >>,
                        log  |-> r.log \o ps.log]

(***************************************************************************)
(* Freshly constructed decoder objects (the two __init__ methods).         *)
(* decode_mebus.decoder is built with explicit noise_level and jitter.     *)
(***************************************************************************)
decoder_init ==
  [ buf           |-> [i \in 1..35 |-> 0],
    decoder_state |-> "wait",
    pulse_len     |-> 0,
    on_level      |-> 0,
    sync_count    |-> 0,
    data          |-> <<>>,
    clipped       |-> 0 ]

(***************************************************************************)
(* decode_elv_wde1.py: the sample-level methods.  self.buf is a sequence   *)
(* of 35 samples, buf[i + 1] being Python's buf[i].  Averages are          *)
(* quotients of integers; the sample amplitudes of the model are multiples *)
(* of every segment length, so that the quotient is exact.                 *)
(***************************************************************************)
Abs(x) == IF x < 0 THEN -x ELSE x

RECURSIVE SeqSum(_)
SeqSum(s) == IF s = <<>> THEN 0 ELSE Head(s) + SeqSum(Tail(s))

SeqMin(s) == CHOOSE m \in {s[i] : i \in 1..Len(s)} : \A i \in 1..Len(s) : m <= s[i]
SeqMax(s) == CHOOSE m \in {s[i] : i \in 1..Len(s)} : \A i \in 1..Len(s) : m >= s[i]

\* self.buf[begin:end]
Slice(buf, begin, end) == SubSeq(buf, begin + 1, end)

signal_avr(buf, begin, end) == SeqSum(Slice(buf, begin, end)) \div (end - begin)

\* returns the range and the new self.clipped
signal_range(self, begin, end) ==
  LET mn == SeqMin(Slice(self.buf, begin, end))
      mx == SeqMax(Slice(self.buf, begin, end))
  IN  [ val     |-> mx - mn,
        clipped |-> IF mx > 32500 \/ mn < -32500
                    THEN self.clipped + 1 ELSE self.clipped ]

\* test_sync0 with the comparisons of its two early returns made strict
test_sync0_strict(self) ==
  LET avh == signal_avr(self.buf, 0, 20)
      avl == signal_avr(self.buf, 26, 33)
  IN  IF avh <= avl * 2 THEN self
      ELSE
        LET rgh == signal_range(self, 0, 20)
            s1  == [self EXCEPT !.clipped = rgh.clipped]
            rgl == signal_range(s1, 26, 33)
            s2  == [s1 EXCEPT !.clipped = rgl.clipped]
        IN  IF avh <= rgh.val \/ avh <= rgl.val THEN s2
            ELSE [s2 EXCEPT !.decoder_state = "sync",
                            !.on_level = (avh + avl) \div 2,
                            !.pulse_len = 0]

test_sync0(self) ==
  LET avh == signal_avr(self.buf, 0, 20)
      avl == signal_avr(self.buf, 26, 33)
  IN  IF avh < avl * 2 THEN self
      ELSE
        LET rgh == signal_range(self, 0, 20)
            s1  == [self EXCEPT !.clipped = rgh.clipped]
            rgl == signal_range(s1, 26, 33)
            s2  == [s1 EXCEPT !.clipped = rgl.clipped]
        IN  IF avh < rgh.val \/ avh < rgl.val THEN s2
            ELSE [s2 EXCEPT !.decoder_state = "sync",
                            !.on_level = (avh + avl) \div 2,
                            !.pulse_len = 0]

\* the while loop of bitval: the first of the offsets skip..3 whose sample
\* is above on_level, else 4
RECURSIVE find_edge(_, _)
find_edge(self, skip) ==
  IF skip < 4
  THEN IF self.buf[skip + 1] > self.on_level THEN skip
       ELSE find_edge(self, skip + 1)
  ELSE skip

\* bitval deciding by the distances alone, a tie being undecodable
bitval_by_distance(self) ==
  LET skip == find_edge(self, 0)
      s1   == [self EXCEPT !.pulse_len = -skip]
  IN  IF skip >= 4 THEN [val |-> -10, self |-> s1]
      ELSE
        LET aa == signal_avr(self.buf, skip, skip + 10)
            ma == signal_avr(self.buf, skip + 13, skip + 22)
            ea == signal_avr(self.buf, skip + 25, 33)
            val == IF Abs(ma - aa) > Abs(ma - ea) THEN 1
                   ELSE IF Abs(ma - aa) < Abs(ma - ea) THEN 0
                   ELSE -1
        IN  [val |-> val, self |-> [s1 EXCEPT !.on_level = (aa + ea) \div 2]]

\* returns the bit value (-10: no edge, -1: undecodable) and the new self
bitval(self) ==
  LET skip == find_edge(self, 0)
      s1   == [self EXCEPT !.pulse_len = -skip]
  IN  IF skip >= 4 THEN [val |-> -10, self |-> s1]
      ELSE
        LET aa == signal_avr(self.buf, skip, skip + 10)
            ma == signal_avr(self.buf, skip + 13, skip + 22)
            ea == signal_avr(self.buf, skip + 25, 33)
            val == IF aa > ea
                   THEN IF Abs(ma - aa) > Abs(ma - ea) THEN 1 ELSE 0
                   ELSE -1
        IN  [val |-> val, self |-> [s1 EXCEPT !.on_level = (aa + ea) \div 2]]

\* process_bit with the start bit accepted from sync_count 6 on
process_bit_early(self) ==
  LET b  == bitval(self)
      s1 == b.self
  IN  IF b.val = -1
      THEN [self |-> [s1 EXCEPT !.decoder_state = "wait"], out |-> <<>>,
            log |-> <<"bitval = -1">>]
      ELSE IF b.val = -10
      THEN IF s1.decoder_state = "data"
           THEN LET d == decode(s1.data)
                IN  [self |-> [s1 EXCEPT !.data = d.data,
                                         !.decoder_state = "wait"],
                     out |-> d.out,
                     log |-> <<"bitval = -10">> \o d.log]
           ELSE [self |-> [s1 EXCEPT !.decoder_state = "wait"],
                 out |-> <<>>, log |-> <<"bitval = -10">>]
      ELSE IF s1.decoder_state = "sync"
      THEN IF b.val = 0
           THEN [self |-> [s1 EXCEPT !.sync_count = @ + 1], out |-> <<>>,
                 log |-> <<"bitval = 0">>]
           ELSE IF b.val = 1 /\ s1.sync_count > 5
           THEN [self |-> [s1 EXCEPT !.decoder_state = "data"], out |-> <<>>,
                 log |-> <<"bitval = 1", "DATA">>]
           ELSE [self |-> s1, out |-> <<>>, log |-> <<"bitval = 1">>]
      ELSE IF s1.decoder_state = "data"
      THEN [self |-> [s1 EXCEPT !.data = Append(@, b.val)], out |-> <<>>,
            log |-> <<IF b.val = 0 THEN "bitval = 0" ELSE "bitval = 1">>]
      ELSE [self |-> s1, out |-> <<>>, log |-> <<>>]

\* process_bit giving up sync on a 1 bit that comes too early
process_bit_resync(self) ==
  LET b  == bitval(self)
      s1 == b.self
  IN  IF b.val = -1
      THEN [self |-> [s1 EXCEPT !.decoder_state = "wait"], out |-> <<>>,
            log |-> <<"bitval = -1">>]
      ELSE IF b.val = -10
      THEN IF s1.decoder_state = "data"
           THEN LET d == decode(s1.data)
                IN  [self |-> [s1 EXCEPT !.data = d.data,
                                         !.decoder_state = "wait"],
                     out |-> d.out,
                     log |-> <<"bitval = -10">> \o d.log]
           ELSE [self |-> [s1 EXCEPT !.decoder_state = "wait"],
                 out |-> <<>>, log |-> <<"bitval = -10">>]
      ELSE IF s1.decoder_state = "sync"
      THEN IF b.val = 0
           THEN [self |-> [s1 EXCEPT !.sync_count = @ + 1], out |-> <<>>,
                 log |-> <<"bitval = 0">>]
           ELSE IF b.val = 1 /\ s1.sync_count > 6
           THEN [self |-> [s1 EXCEPT !.decoder_state = "data"], out |-> <<>>,
                 log |-> <<"bitval = 1", "DATA">>]
           ELSE [self |-> [s1 EXCEPT !.decoder_state = "wait"], out |-> <<>>,
                 log |-> <<"bitval = 1">>]
      ELSE IF s1.decoder_state = "data"
      THEN [self |-> [s1 EXCEPT !.data = Append(@, b.val)], out |-> <<>>,
            log |-> <<IF b.val = 0 THEN "bitval = 0" ELSE "bitval = 1">>]
      ELSE [self |-> s1, out |-> <<>>, log |-> <<>>]

\* the branch of process taken once the buffer is filled and the decoder
\* is not in 'wait'
process_bit(self) ==
  LET b  == bitval(self)
      s1 == b.self
  IN  IF b.val = -1
      THEN [self |-> [s1 EXCEPT !.decoder_state = "wait"], out |-> <<>>,
            log |-> <<"bitval = -1">>]
      ELSE IF b.val = -10
      THEN IF s1.decoder_state = "data"
           THEN LET d == decode(s1.data)
                IN  [self |-> [s1 EXCEPT !.data = d.data,
                                         !.decoder_state = "wait"],
                     out |-> d.out,
                     log |-> <<"bitval = -10">> \o d.log]
           ELSE [self |-> [s1 EXCEPT !.decoder_state = "wait"],
                 out |-> <<>>, log |-> <<"bitval = -10">>]
      ELSE IF s1.decoder_state = "sync"
      THEN IF b.val = 0
           THEN [self |-> [s1 EXCEPT !.sync_count = @ + 1], out |-> <<>>,
                 log |-> <<"bitval = 0">>]
           ELSE IF b.val = 1 /\ s1.sync_count > 6
           THEN [self |-> [s1 EXCEPT !.decoder_state = "data"], out |-> <<>>,
                 log |-> <<"bitval = 1", "DATA">>]
           ELSE [self |-> s1, out |-> <<>>, log |-> <<"bitval = 1">>]
      ELSE IF s1.decoder_state = "data"
      THEN [self |-> [s1 EXCEPT !.data = Append(@, b.val)], out |-> <<>>,
            log |-> <<IF b.val = 0 THEN "bitval = 0" ELSE "bitval = 1">>]
      ELSE [self |-> s1, out |-> <<>>, log |-> <<>>]

process(self, value) ==
  LET s1 == [self EXCEPT !.buf = Append(Tail(@), value),
                         !.pulse_len = @ + 1]
  IN  IF s1.pulse_len <= 35
      THEN [self |-> s1, out |-> <<>>, log |-> <<>>]
      ELSE
        LET err == IF s1.clipped % 10000 = 1
                   THEN <<"Clipped signal detected">> ELSE <<>>
        IN  IF s1.decoder_state = "wait"
            THEN LET s2 == test_sync0([s1 EXCEPT !.sync_count = 0,
                                                 !.data = <<>>])
                 IN  [self |-> s2, out |-> <<>>,
                      log |-> err \o (IF s2.decoder_state = "sync"
                                      THEN <<"SYNC!">> ELSE <<>>)]
            ELSE LET r == process_bit(s1)
                 IN  [self |-> r.self, out |-> r.out, log |-> err \o r.log]

(***************************************************************************)
(* decode_mebus.py.  The decoder is constructed as decoder(NoiseLevel,     *)
(* Jitter).  bitval returns None for an invalid pulse; None is the value   *)
(* -1 here.  self.pulse_border is sync_off[2] * 1.5, a multiple of one     *)
(* half: the field pulse_border2 holds 2 * self.pulse_border, and a length *)
(* is compared with the border by comparing twice the length with it.      *)
(* self.pulse_limit is 2 * self.pulse_border, a whole number.              *)
(***************************************************************************)
NoiseLevel == 50
Jitter == 20
None == -1

mebus_init ==
  [ noise_level   |-> NoiseLevel,
    jitter        |-> Jitter,
    signal_state  |-> 0,
    pulse_len     |-> -1,
    decoder_state |-> "wait",
    sync_on       |-> <<>>,
    sync_off      |-> <<>>,
    data          |-> <<>>,
    pulse_border2 |-> 0,
    pulse_limit   |-> 10000 ]

\* every method returns the new self, what it printed and what it logged
Ret(self, out, lg) == [self |-> self, out |-> out, log |-> lg]

m_reset(self) ==
  Ret([self EXCEPT !.decoder_state = "wait", !.sync_on = <<>>,
                   !.sync_off = <<>>], <<>>, <<"WAITING...">>)

m_repeat(self) ==
  Ret([self EXCEPT !.decoder_state = "repeat_1"], <<>>, <<"REPEATING...">>)

\* the string dump prints: the bits, a blank before every group of four
RECURSIVE dump_string(_, _)
dump_string(data, i) ==
  IF i >= Len(data) THEN <<>>
  ELSE (IF i % 4 = 0 THEN <<" ">> ELSE <<>>) \o <<data[i + 1]>>
         \o dump_string(data, i + 1)

m_dump(self) == Ret(self, << dump_string(self.data, 0) >>, <<"DUMP">>)

\* decode_mebus.decoder also carries popbits, expect_eon and decode, with
\* the statements of decode_elv_wde1's.  process() does not call them (its
\* call of decode() at the end of a frame is commented out: the frame is
\* printed by dump() and data is kept); they are the calls of a client of
\* the class.  self.data holds None after an invalid pulse in 'data'
\* (databit(bitval(length))): "self.data.pop(0) << i" then raises TypeError
\* with the element already taken off.  exc tells that the call raised.

\* for i in range(0, num): val += self.data.pop(0) << i
RECURSIVE m_popbits_loop(_, _, _, _)
m_popbits_loop(data, i, num, val) ==
  IF i >= num THEN [val |-> val, data |-> data, log |-> <<>>, exc |-> FALSE]
  ELSE IF Head(data) = None
  THEN [val |-> 0, data |-> Tail(data), log |-> <<>>, exc |-> TRUE]
  ELSE m_popbits_loop(Tail(data), i + 1, num, val + Shl(Head(data), i))

m_popbits(data, num) ==
  IF Len(data) < num
  THEN [val |-> 0, data |-> data, log |-> <<"data exhausted">>, exc |-> FALSE]
  ELSE m_popbits_loop(data, 0, num, 0)

m_expect_eon(data) ==
  LET p == m_popbits(data, 1)
  IN  IF p.exc
      THEN [ok |-> FALSE, data |-> p.data, log |-> p.log, exc |-> TRUE]
      ELSE IF p.val # 1
      THEN [ok |-> FALSE, data |-> p.data,
            log |-> p.log \o <<"end of nibble is not 1">>, exc |-> FALSE]
      ELSE [ok |-> TRUE, data |-> p.data, log |-> p.log, exc |-> FALSE]

\* the loop "for i in range(0, nibble_count)" of decode, from iteration i on
RECURSIVE m_read_nibbles(_, _, _, _, _, _, _)
m_read_nibbles(data, i, nibble_count, dec, check, sum, lg) ==
  IF i >= nibble_count
  THEN [ok |-> TRUE, data |-> data, dec |-> dec, check |-> check,
        sum |-> sum, log |-> lg, exc |-> FALSE]
  ELSE LET p == m_popbits(data, 4)
       IN  IF p.exc
           THEN [ok |-> FALSE, data |-> p.data, dec |-> dec, check |-> check,
                 sum |-> sum, log |-> lg \o p.log, exc |-> TRUE]
           ELSE
             LET e == m_expect_eon(p.data)
             IN  IF ~e.ok
                 THEN [ok |-> FALSE, data |-> e.data, dec |-> dec,
                       check |-> check, sum |-> sum,
                       log |-> lg \o p.log \o e.log, exc |-> e.exc]
                 ELSE m_read_nibbles(e.data, i + 1, nibble_count,
                                     Append(dec, p.val), BitXor(check, p.val),
                                     sum + p.val, lg \o p.log \o e.log)

m_decode(data) ==
  LET p0 == m_popbits(data, 4)
  IN  IF p0.exc
      THEN [data |-> p0.data, out |-> <<>>, log |-> <<"DECODE">> \o p0.log,
            exc |-> TRUE]
      ELSE
        LET sensor_type == sensor_type_of(p0.val)
            e0          == m_expect_eon(p0.data)
            log0        == <<"DECODE">> \o p0.log \o e0.log
        IN  IF ~e0.ok
            THEN [data |-> e0.data, out |-> <<>>, log |-> log0, exc |-> e0.exc]
            ELSE
              LET r == m_read_nibbles(e0.data, 0,
                                      sensor_data_count[sensor_type + 1],
                                      <<>>, BitXor(0, sensor_type),
                                      0 + sensor_type, log0)
              IN  IF ~r.ok
                  THEN [data |-> r.data, out |-> <<>>, log |-> r.log,
                        exc |-> r.exc]
                  ELSE IF ~check_ok(r.check)
                  THEN [data |-> r.data, out |-> <<>>,
                        log |-> r.log \o <<"Check is not 0">>, exc |-> FALSE]
                  ELSE
                    LET ps  == m_popbits(r.data, 4)
                        sum == computed_sum(r.sum)
                    IN  IF ps.exc
                        THEN [data |-> ps.data, out |-> <<>>,
                              log |-> r.log \o ps.log, exc |-> TRUE]
                        ELSE IF ps.val # sum
                        THEN [data |-> ps.data, out |-> <<>>,
                              log |-> r.log \o ps.log \o <<"Sum read differs">>,
                              exc |-> FALSE]
                        ELSE [data |-> ps.data,
                              out  |-> << decoder_output(sensor_type, r.dec) >>,
                              log  |-> r.log \o ps.log, exc |-> FALSE]

\* bitval without the lower bound of a 0 bit
m_bitval_unjittered(self, length) ==
  IF 2 * length < self.pulse_border2
  THEN [val |-> 0, self |-> self, log |-> <<>>]
  ELSE IF 2 * length > self.pulse_border2 /\ length < self.pulse_limit
  THEN [val |-> 1, self |-> self, log |-> <<>>]
  ELSE LET r == m_reset(self)
       IN  [val |-> None, self |-> r.self,
            log |-> <<"off pulse too long">> \o r.log]

\* returns val (0, 1 or "None") next to the new self
m_bitval(self, length) ==
  IF length > self.jitter /\ 2 * length < self.pulse_border2
  THEN [val |-> 0, self |-> self, log |-> <<>>]
  ELSE IF 2 * length > self.pulse_border2 /\ length < self.pulse_limit
  THEN [val |-> 1, self |-> self, log |-> <<>>]
  ELSE LET r == m_reset(self)
       IN  [val |-> None, self |-> r.self,
            log |-> <<"off pulse too long">> \o r.log]

\* expect_start taking every decoded bit as the start bit
m_expect_start_any(self, value) ==
  IF value # None
  THEN Ret([self EXCEPT !.data = <<>>, !.decoder_state = "data"], <<>>,
           <<"START">>)
  ELSE LET r == m_reset(self)
       IN  Ret(r.self, <<>>, <<"Start bit is not 1">> \o r.log)

\* expect_start without the reset of its else branch
m_expect_start_noreset(self, value) ==
  IF value = 1
  THEN Ret([self EXCEPT !.data = <<>>, !.decoder_state = "data"], <<>>,
           <<"START">>)
  ELSE Ret(self, <<>>, <<"Start bit is not 1">>)

m_expect_start(self, value) ==
  IF value = 1
  THEN Ret([self EXCEPT !.data = <<>>, !.decoder_state = "data"], <<>>,
           <<"START">>)
  ELSE LET r == m_reset(self)
       IN  Ret(r.self, <<>>, <<"Start bit is not 1">> \o r.log)

m_expect_repeat(self, value) ==
  IF value = 0
  THEN Ret([self EXCEPT !.data = <<>>, !.decoder_state = "start"], <<>>,
           <<"REPEAT">>)
  ELSE LET r == m_reset(self)
       IN  Ret(r.self, <<>>, <<"Repeat bit is not 0">> \o r.log)

m_databit(self, value) == Ret([self EXCEPT !.data = Append(@, value)], <<>>, <<>>)

\* verify_sync_block without the test of the last OFF pulse
m_verify_sync_block_on_only(self) ==
  IF Len(self.sync_on) # 3
  THEN LET r == m_reset(self)
       IN  Ret(r.self, <<>>,
               <<"number of ON/OFF pulses in sync block != 3">> \o r.log)
  ELSE
    LET onl  == (self.sync_on[1] + self.sync_on[2] + self.sync_on[3]) \div 3
    IN  IF \E i \in 1..3 : Abs(onl - self.sync_on[i]) > self.jitter
        THEN LET r == m_reset(self)
             IN  Ret(r.self, <<>>, <<"high jitter in sync block (ON)">> \o r.log)
        ELSE LET border2 == self.sync_off[3] * 3
             IN  Ret([self EXCEPT !.pulse_border2 = border2,
                                  !.pulse_limit = border2,
                                  !.decoder_state = "start"],
                     <<>>, <<"SYNC!">>)

m_verify_sync_block(self) ==
  IF Len(self.sync_on) # 3
  THEN LET r == m_reset(self)
       IN  Ret(r.self, <<>>,
               <<"number of ON/OFF pulses in sync block != 3">> \o r.log)
  ELSE
    LET onl  == (self.sync_on[1] + self.sync_on[2] + self.sync_on[3]) \div 3
        offl == (self.sync_off[1] + self.sync_off[2]) \div 2
    IN  IF \E i \in 1..3 : Abs(onl - self.sync_on[i]) > self.jitter
        THEN LET r == m_reset(self)
             IN  Ret(r.self, <<>>, <<"high jitter in sync block (ON)">> \o r.log)
        ELSE IF self.sync_off[3] < 2 * offl
        THEN LET r == m_reset(self)
             IN  Ret(r.self, <<>>, <<"last OFF in sync is too short">> \o r.log)
        ELSE LET border2 == self.sync_off[3] * 3
             IN  Ret([self EXCEPT !.pulse_border2 = border2,
                                  !.pulse_limit = border2,
                                  !.decoder_state = "start"],
                     <<>>, <<"SYNC!">>)

m_sync_on_pulse(self, length) ==
  IF length > self.jitter /\ length < self.pulse_limit
  THEN LET s1 == [self EXCEPT !.sync_on = Append(@, length)]
       IN  IF Len(s1.sync_on) > 3 THEN m_reset(s1) ELSE Ret(s1, <<>>, <<>>)
  ELSE m_reset(self)

m_sync_off_pulse(self, length) ==
  IF length > self.jitter /\ length < self.pulse_limit
  THEN LET s1 == [self EXCEPT !.sync_off = Append(@, length)]
       IN  IF Len(s1.sync_off) = 3 THEN m_verify_sync_block(s1)
           ELSE Ret(s1, <<>>, <<>>)
  ELSE m_reset(self)

m_signal_on(self, length) ==
  IF self.decoder_state = "sync" THEN m_sync_on_pulse(self, length)
  ELSE IF self.decoder_state = "repeat_1"
  THEN Ret([self EXCEPT !.decoder_state = "repeat_2"], <<>>, <<>>)
  ELSE Ret(self, <<>>, <<>>)

\* the handler of the decoder state is applied to the result of bitval
m_signal_off(self, length) ==
  IF self.decoder_state = "sync" THEN m_sync_off_pulse(self, length)
  ELSE IF self.decoder_state \in {"repeat_2", "start", "data"}
  THEN LET b == m_bitval(self, length)
           r == IF self.decoder_state = "repeat_2"
                THEN m_expect_repeat(b.self, b.val)
                ELSE IF self.decoder_state = "start"
                THEN m_expect_start(b.self, b.val)
                ELSE m_databit(b.self, b.val)
       IN  Ret(r.self, r.out, b.log \o r.log)
  ELSE Ret(self, <<>>, <<>>)

m_signal_goto_on(self) ==
  LET r == IF self.decoder_state = "wait"
           THEN Ret([self EXCEPT !.decoder_state = "sync"], <<>>, <<"SYNCING...">>)
           ELSE m_signal_off(self, self.pulse_len)
  IN  Ret([r.self EXCEPT !.pulse_len = 0], r.out, r.log)

m_signal_goto_off(self) ==
  LET r == IF self.decoder_state # "wait"
           THEN m_signal_on(self, self.pulse_len)
           ELSE Ret(self, <<>>, <<>>)
  IN  Ret([r.self EXCEPT !.pulse_len = 0], r.out, r.log)

\* the two ifs of process, the second applying to repeat_1 as well
m_signal_stays_off_timeout(self) ==
  LET r1 == IF self.decoder_state = "data" /\ self.pulse_len > self.pulse_limit
            THEN LET d == m_dump(self)
                     t == m_repeat(d.self)
                 IN  Ret(t.self, d.out, d.log \o t.log)
            ELSE Ret(self, <<>>, <<>>)
      r2 == IF r1.self.decoder_state \in {"repeat_1", "repeat_2"}
               /\ r1.self.pulse_len > 2 * r1.self.pulse_limit
            THEN m_reset(r1.self)
            ELSE Ret(r1.self, <<>>, <<>>)
  IN  Ret(r2.self, r1.out, r1.log \o r2.log)

\* the two ifs of process taken while the signal stays off
m_signal_stays_off(self) ==
  LET r1 == IF self.decoder_state = "data" /\ self.pulse_len > self.pulse_limit
            THEN LET d == m_dump(self)
                     t == m_repeat(d.self)
                 IN  Ret(t.self, d.out, d.log \o t.log)
            ELSE Ret(self, <<>>, <<>>)
      r2 == IF r1.self.decoder_state = "repeat_2"
               /\ r1.self.pulse_len > 2 * r1.self.pulse_limit
            THEN m_reset(r1.self)
            ELSE Ret(r1.self, <<>>, <<>>)
  IN  Ret(r2.self, r1.out, r1.log \o r2.log)

m_process(self, value) ==
  LET s1 == [self EXCEPT !.pulse_len = @ + 1]
      next_signal_state == IF value > s1.noise_level THEN 1 ELSE 0
      r  == IF s1.signal_state = 0
            THEN IF next_signal_state = 0 THEN m_signal_stays_off(s1)
                 ELSE m_signal_goto_on(s1)
            ELSE IF s1.signal_state = 1 /\ next_signal_state = 0
                 THEN m_signal_goto_off(s1)
                 ELSE Ret(s1, <<>>, <<>>)
  IN  Ret([r.self EXCEPT !.signal_state = next_signal_state], r.out, r.log)

(***************************************************************************)
(* The sample source.  air.run names the decoder that is fed:              *)
(*   "elv"    decode_elv_wde1 fed bit by bit with any of the symbols       *)
(*   "stream" decode_elv_wde1 fed by main() from a file (air.script), in   *)
(*            blocks of 256 samples, up to the end of the file             *)
(*   "mebus"  decode_mebus fed with ON and OFF pulses                      *)
(*   "pulses" decode_mebus fed with whole pulses (SpecPulse)               *)
(*   "calls"  decode_mebus fed with the pulses of a frame (SpecCalls)      *)
(*   "frames" no samples: decode() is applied to bit sequences             *)
(* air.wave holds the samples of the symbol or pulse in transmission.      *)
(***************************************************************************)
air_init(run, script) ==
  [ run |-> run, wave |-> <<>>, level |-> 0, script |-> script,
    rest |-> "idle", nread |-> 0, eof |-> FALSE ]

\* hist records, for the claims, what the calls so far did: the lines
\* printed for the packet in reception (protocol B), whether a call
\* rejected its input, and whether sync was locked again after that
hist_init == [ packet |-> <<>>, rejected |-> FALSE, relocked |-> FALSE ]

Logged(lg, msg) == \E i \in 1..Len(lg) : lg[i] = msg

\* A bit of protocol A lasts 1220 us, 36.6 samples at 30 kHz: 37 samples
\* here.  Amp and Amp / 2 are multiples of twice every segment length the
\* decoder averages, so that the averages and their midpoints are integers.
Amp == 4 * 2520
Rep(n, v) == [i \in 1..n |-> v]

\* "half" is a bit whose middle third is at half the amplitude: as far from
\* the leading as from the trailing level
Symbols == {"0", "1", "idle", "bad", "half"}

Wave(sym) ==
  IF sym = "0" THEN Rep(24, Amp) \o Rep(13, 0)
  ELSE IF sym = "1" THEN Rep(12, Amp) \o Rep(25, 0)
  ELSE IF sym = "bad" THEN Rep(1, Amp) \o Rep(24, 0) \o Rep(12, Amp)
  ELSE IF sym = "half" THEN Rep(12, Amp) \o Rep(12, Amp \div 2) \o Rep(13, 0)
  ELSE Rep(37, 0)

MaxSync == 8
MaxData == 2
MaxPulseLen == 80
MaxOut == 2

\* the size of the files main() reads, in blocks of BlockLen samples
MaxBlocks == 14
BlockLen == 256

\* the model's bounds on the counters the code leaves unbounded
ElvWithinBounds(self) ==
  air.run = "elv" =>
    /\ self.sync_count <= MaxSync
    /\ Len(self.data) <= MaxData
    /\ self.pulse_len <= MaxPulseLen

\* the call met an undecodable bit, or a missing edge that did not end a
\* frame that was then printed
ElvRejected(r) ==
  \/ Logged(r.log, "bitval = -1")
  \/ Logged(r.log, "bitval = -10") /\ r.out = <<>>

\* one call of decoder.process(value) of decode_elv_wde1
ElvProcess ==
  /\ air.run \in {"elv", "stream"}
  /\ air.wave # <<>>
  /\ ~air.eof
  /\ air.run = "stream" => air.nread < MaxBlocks * BlockLen
  /\ \E r \in {process(elv, Head(air.wave))} :
         /\ ElvWithinBounds(r.self)
         /\ elv' = r.self
         /\ stdout' = r.out
         /\ log' = r.log
         /\ hist' = [hist EXCEPT
                       !.rejected = @ \/ ElvRejected(r),
                       !.relocked = @ \/ (hist.rejected
                                             /\ Logged(r.log, "SYNC!"))]
  /\ air' = [air EXCEPT !.wave = Tail(@),
                        !.nread = IF air.run = "stream" THEN @ + 1 ELSE @]
  /\ UNCHANGED <<mebus, tx>>

\* the transmitter starts the next symbol
ElvTransmit ==
  /\ air.run = "elv"
  /\ air.wave = <<>>
  /\ \E sym \in Symbols : air' = [air EXCEPT !.wave = Wave(sym)]
  /\ UNCHANGED <<elv, mebus, stdout, log, tx, hist>>

\* the next symbol of the file
StreamTransmit ==
  /\ air.run = "stream"
  /\ air.wave = <<>>
  /\ ~air.eof
  /\ air' = IF air.script # <<>>
            THEN [air EXCEPT !.wave = Wave(Head(air.script)),
                             !.script = Tail(@)]
            ELSE [air EXCEPT !.wave = Wave(air.rest)]
  /\ UNCHANGED <<elv, mebus, stdout, log, tx, hist>>

\* main(): fin.read(512) returns less than a block, the loop ends and the
\* file is closed.  Nothing is called on the decoder.
EndOfStream ==
  /\ air.run = "stream"
  /\ ~air.eof
  /\ air.nread % BlockLen = 0
  /\ air' = [air EXCEPT !.eof = TRUE]
  /\ UNCHANGED <<elv, mebus, stdout, log, tx, hist>>

\* Pulses of protocol B: the transmitter keys ON and OFF pulses in turn.
\* A sample of an OFF pulse is at the noise level, one of an ON pulse just
\* above it.
OnLens == {20, 23, 65}
OffLens == {20, 22, 44, 88, 266}
MaxDataB == 1

MebusWithinBounds(self, out) ==
  /\ Len(self.data) <= MaxDataB
  /\ Len(out) <= MaxOut

MebusRejected(r) == Logged(r.log, "WAITING...")

\* one call of decoder.process(value) of decode_mebus
MebusProcess ==
  /\ air.run = "mebus"
  /\ air.wave # <<>>
  /\ \E r \in {m_process(mebus, Head(air.wave))} :
         /\ MebusWithinBounds(r.self, hist.packet \o r.out)
         /\ mebus' = r.self
         /\ stdout' = r.out
         /\ log' = r.log
         /\ hist' = [ packet   |-> IF r.self.decoder_state = "wait" THEN <<>>
                                   ELSE hist.packet \o r.out,
                      rejected |-> hist.rejected \/ MebusRejected(r),
                      relocked |-> hist.relocked
                                     \/ (hist.rejected
                                           /\ Logged(r.log, "SYNC!")) ]
  /\ air' = [air EXCEPT !.wave = Tail(@)]
  /\ UNCHANGED <<elv, tx>>

\* the transmitter keys the next pulse
MebusTransmit ==
  /\ air.run = "mebus"
  /\ air.wave = <<>>
  /\ \E n \in (IF air.level = 0 THEN OnLens ELSE OffLens) :
       air' = [air EXCEPT !.level = 1 - @,
                          !.wave = Rep(n, IF air.level = 0
                                          THEN NoiseLevel + 1
                                          ELSE NoiseLevel)]
  /\ UNCHANGED <<elv, mebus, stdout, log, tx, hist>>

Init ==
  /\ elv = decoder_init
  /\ mebus = mebus_init
  /\ stdout = <<>>
  /\ log = <<>>
  /\ tx = [ frame |-> <<>>, sent |-> <<>>, data |-> <<>>, kind |-> "none",
            arg |-> 0, phase |-> "none", emitted0 |-> FALSE,
            emitted |-> FALSE ]
  /\ air \in { air_init("elv", <<>>), air_init("mebus", <<>>) }
  /\ hist = hist_init

Next == ElvProcess \/ ElvTransmit \/ MebusProcess \/ MebusTransmit

Spec == Init /\ [][Next]_vars

(***************************************************************************)
(* Frame-level harness for decode(): the transmitter's side.                *)
(* A frame is the type nibble, the layout's nibbles (each followed by the   *)
(* end-of-nibble bit) and the sum nibble, least significant bit first.      *)
(* The Ref* operators give, by position in the bit sequence, what the       *)
(* reads of decode() return: written without the decoder's cursor, but      *)
(* with popbits' rule that a read finding too few bits returns 0 and takes  *)
(* nothing off.                                                             *)
(***************************************************************************)
NibbleBits(v) == << v % 2, (v \div 2) % 2, (v \div 4) % 2, (v \div 8) % 2 >>

RECURSIVE NibblesBits(_)
NibblesBits(dec) ==
  IF dec = <<>> THEN <<>>
  ELSE NibbleBits(Head(dec)) \o <<1>> \o NibblesBits(Tail(dec))

RECURSIVE SeqXor(_)
SeqXor(s) == IF s = <<>> THEN 0 ELSE BitXor(Head(s), SeqXor(Tail(s)))

\* the frame a sensor of type tn % 8 sends for the nibbles dec
MkFrame(tn, dec) ==
  NibbleBits(tn) \o <<1>> \o NibblesBits(dec)
    \o NibbleBits(((tn % 8) + SeqSum(dec) + 5) % 16)

\* dec with its last nibble set so that the XOR over type and nibbles is 0
FixCheck(ty, dec) ==
  LET n == Len(dec)
  IN  [dec EXCEPT ![n] = BitXor(ty, SeqXor(SubSeq(dec, 1, n - 1)))]

RefHas(bits, k) == 5 * k + 4 <= Len(bits)

\* what popbits(4) returns for nibble k (0: the type nibble): 0 when fewer
\* than 4 bits are left for it
RefNibble(bits, k) ==
  IF RefHas(bits, k)
  THEN bits[5 * k + 1] + 2 * bits[5 * k + 2] + 4 * bits[5 * k + 3]
         + 8 * bits[5 * k + 4]
  ELSE 0

\* what popbits(1) returns for the end-of-nibble bit after nibble k.  Once
\* a nibble k0 found fewer than 4 bits, nothing was taken off for it and
\* for the nibbles after it, and the end-of-nibble reads take the bits left
\* one by one
RefEon(bits, k) ==
  IF 5 * k + 5 <= Len(bits) THEN bits[5 * k + 5]
  ELSE LET k0 == Len(bits) \div 5
           p  == 5 * k0 + (k - k0) + 1
       IN  IF Len(bits) % 5 < 4 /\ p <= Len(bits) THEN bits[p] ELSE 0

RefType(bits) == RefNibble(bits, 0) % 8
RefCount(bits) == sensor_data_count[RefType(bits) + 1]
RefNeed(bits) == 5 + 5 * RefCount(bits) + 4
RefDec(bits) == [k \in 1..RefCount(bits) |-> RefNibble(bits, k)]

RECURSIVE RefBitCount(_, _, _)
\* how many of the nibbles 1..k have bit j set
RefBitCount(bits, k, j) ==
  IF k = 0 THEN 0
  ELSE ((RefNibble(bits, k) \div (2 ^ j)) % 2) + RefBitCount(bits, k - 1, j)

RefEonOk(bits) == \A k \in 0..RefCount(bits) : RefEon(bits, k) = 1
RefXorOk(bits) ==
  \A j \in 0..3 :
    (((RefType(bits) \div (2 ^ j)) % 2)
       + RefBitCount(bits, RefCount(bits), j)) % 2 = 0
RefSumOk(bits) ==
  (RefType(bits) + SeqSum(RefDec(bits)) + 5) % 16
    = RefNibble(bits, RefCount(bits) + 1)
RefValid(bits) == RefEonOk(bits) /\ RefXorOk(bits) /\ RefSumOk(bits)

\* Nibble contents the transmitter is modelled to send: a base pattern with
\* one nibble varied over VaryVals, the last nibble of the layout carrying
\* the XOR check.  capture_1 / capture_2 are the readings the repository's
\* tests expect (address 6, 20.2, 61.7 and address 1, 17.6, 54, 0, 1634).
capture_1 == <<6, 2, 0, 2, 7, 1, 6, 0>>
capture_2 == <<1, 6, 7, 1, 4, 5, 0, 0, 0, 2, 6, 6, 0, 0>>

BaseDec(b, ty) ==
  LET n == sensor_data_count[ty + 1]
  IN  IF b = "capture" /\ ty = 1 THEN capture_1
      ELSE IF b = "capture" /\ ty = 7 THEN capture_2
      ELSE IF b = "ramp" THEN [k \in 1..n |-> (3 * k + ty) % 16]
      ELSE [k \in 1..n |-> 0]

MaxVary == 3
MaxTail == 2

\* the values a varied nibble takes: 0, 5, 10, 15, ...
VaryVals == { (5 * v) % 16 : v \in 0..MaxVary }

Tails == UNION { [1..n -> {0, 1}] : n \in 1..MaxTail }

FramesOf(ty, hi, b, vals) ==
  { MkFrame(ty + 8 * hi, FixCheck(ty, [BaseDec(b, ty) EXCEPT ![i] = v])) :
      i \in 1..(sensor_data_count[ty + 1] - 1), v \in vals }

\* frames that are received, then received again damaged
ValidFrames ==
  UNION { FramesOf(ty, hi, "zero", VaryVals) : ty \in 0..7, hi \in {0, 1} }
    \cup FramesOf(1, 0, "capture", VaryVals)
    \cup FramesOf(7, 0, "capture", VaryVals)

\* the nibbles of the ramp pattern with one nibble varied, the last nibble
\* of the layout left as it is: the XOR check is not applied
RampDecs(ty) ==
  { [BaseDec("ramp", ty) EXCEPT ![i] = v] :
      i \in 1..(sensor_data_count[ty + 1] - 1), v \in VaryVals }

\* frames whose sum nibble is right and whose XOR check nibble is not
GarbledFrames ==
  UNION { { MkFrame(ty, dec) :
              dec \in { d \in RampDecs(ty) : BitXor(ty, SeqXor(d)) # 0 } } :
          ty \in 0..7 }

\* frames that are received once: every value of every nibble
FieldFrames ==
  UNION { FramesOf(ty, hi, b, 0..15) :
            ty \in 0..7, hi \in {0, 1}, b \in {"zero", "ramp", "capture"} }

FlipAt(bits, i) == [bits EXCEPT ![i] = 1 - @]

tx_init(f, kind) ==
  [ frame |-> f, sent |-> f, data |-> f, kind |-> kind, arg |-> 0,
    phase |-> "loaded", emitted0 |-> FALSE, emitted |-> FALSE ]

Load(kind, arg, bits) ==
  /\ tx.phase = "decoded"
  /\ tx.kind = "orig"
  /\ tx' = [tx EXCEPT !.sent = bits, !.data = bits, !.kind = kind,
                      !.arg = arg, !.phase = "loaded", !.emitted = FALSE]
  /\ log' = <<>>
  /\ stdout' = <<>>
  /\ UNCHANGED <<elv, mebus, air, hist>>

\* the same frame received again with one bit inverted
FlipBit == \E i \in 1..Len(tx.frame) : Load("flip", i, FlipAt(tx.frame, i))

\* the frame received up to its first n bits only
CutFrame == \E n \in 0..(Len(tx.frame) - 1) : Load("cut", n, SubSeq(tx.frame, 1, n))

\* the frame received with further bits after it
AppendTail == \E t \in Tails : Load("tail", Len(t), tx.frame \o t)

\* decode() on the received bit sequence
DecodeFrame ==
  /\ tx.phase = "loaded"
  /\ \E r \in {decode(tx.data)} :
         /\ tx' = [tx EXCEPT !.data = r.data, !.phase = "decoded",
                             !.emitted = Len(r.out) > 0,
                             !.emitted0 = IF tx.kind = "orig"
                                          THEN Len(r.out) > 0 ELSE @]
         /\ stdout' = r.out
         /\ log' = r.log
  /\ UNCHANGED <<elv, mebus, air, hist>>

InitDecode ==
  /\ elv = decoder_init
  /\ mebus = mebus_init
  /\ stdout = <<>>
  /\ log = <<>>
  /\ air = air_init("frames", <<>>)
  /\ hist = hist_init
  /\ tx \in { tx_init(f, "orig") : f \in ValidFrames }
          \cup { tx_init(f, "garbled") : f \in GarbledFrames }

NextDecode == DecodeFrame \/ FlipBit \/ CutFrame \/ AppendTail

SpecDecode == InitDecode /\ [][NextDecode]_vars

InitFields ==
  /\ elv = decoder_init
  /\ mebus = mebus_init
  /\ stdout = <<>>
  /\ log = <<>>
  /\ air = air_init("frames", <<>>)
  /\ hist = hist_init
  /\ tx \in { tx_init(f, "orig") : f \in FieldFrames }

NextFields == DecodeFrame \/ AppendTail

SpecFields == InitFields /\ [][NextFields]_vars

(***************************************************************************)
(* main() of decode_elv_wde1.py reading a file: the preamble of a          *)
(* transmission (sync bits 0, start bit 1), the bits of a frame, and then  *)
(* what the file goes on with.                                             *)
(***************************************************************************)
Preamble == Rep(MaxSync, "0") \o <<"1">>

BitSymbols(bits) == [i \in 1..Len(bits) |-> IF bits[i] = 0 THEN "0" ELSE "1"]

\* the frames the files hold: the two captured readings, or none
StreamFrames ==
  { MkFrame(1, FixCheck(1, capture_1)), MkFrame(7, FixCheck(7, capture_2)),
    <<>> }

stream_init(script, rest) == [air_init("stream", script) EXCEPT !.rest = rest]

InitStream ==
  /\ elv = decoder_init
  /\ mebus = mebus_init
  /\ stdout = <<>>
  /\ log = <<>>
  /\ tx = [ frame |-> <<>>, sent |-> <<>>, data |-> <<>>, kind |-> "none",
            arg |-> 0, phase |-> "none", emitted0 |-> FALSE,
            emitted |-> FALSE ]
  /\ hist = hist_init
  /\ \E lead \in {<<>>, <<"idle">>}, rest \in Symbols :
        air \in { stream_init(lead \o Preamble \o BitSymbols(f), rest) :
                    f \in StreamFrames }

NextStream == ElvProcess \/ StreamTransmit \/ EndOfStream

SpecStream == InitStream /\ [][NextStream]_vars

(***************************************************************************)
(* Protocol B pulse by pulse.  main() hands every sample to process(); a   *)
(* pulse is a run of samples on one side of the noise level, and            *)
(* MebusPulse is the calls of process() for one whole pulse.  The pulse     *)
(* lengths comprise the edges of the decoder's comparisons: the jitter and  *)
(* one more, ON pulses at the tolerance around their mean, OFF pulses at    *)
(* the border (66) and at the limit (132) of the shortest sync block, and   *)
(* a third OFF pulse of odd length (45: border 67.5, limit 135).            *)
(***************************************************************************)
PulseOnLens == {21, 42, 61}
PulseOffLens == {20, 22, 23, 44, 45, 66, 88, 132}
MaxDataP == 1
\* the longest calibration followed (pulse_border at most MaxBorder): the
\* sync blocks that end in a third OFF pulse of 44 or 45 samples
MaxBorder == 68

\* process(value) called for n samples of one value
\* (the samples are split in two halves to keep the evaluation shallow)
RECURSIVE m_feed(_, _, _)
m_feed(self, value, n) ==
  IF n = 1 THEN m_process(self, value)
  ELSE CHOOSE res \in UNION
         { { Ret(b.self, a.out \o b.out, a.log \o b.log) :
               b \in {m_feed(a.self, value, n - n \div 2)} } :
             a \in {m_feed(self, value, n \div 2)} } : TRUE

\* the transmitter keys the next pulse and the decoder processes its samples
MebusPulse ==
  /\ air.run = "pulses"
  /\ \E n \in (IF air.level = 0 THEN PulseOnLens ELSE PulseOffLens) :
       \E r \in {m_feed(mebus, IF air.level = 0 THEN NoiseLevel + 1
                               ELSE NoiseLevel, n)} :
         /\ Len(r.self.data) <= MaxDataP
         /\ r.self.pulse_border2 <= 2 * MaxBorder
         /\ Len(hist.packet \o r.out) <= MaxOut
         /\ mebus' = r.self
         /\ stdout' = r.out
         /\ log' = r.log
         /\ hist' = [ packet   |-> IF r.self.decoder_state = "wait" THEN <<>>
                                   ELSE hist.packet \o r.out,
                      rejected |-> hist.rejected \/ MebusRejected(r),
                      relocked |-> hist.relocked
                                     \/ (hist.rejected
                                           /\ Logged(r.log, "SYNC!")) ]
  /\ air' = [air EXCEPT !.level = 1 - @]
  /\ UNCHANGED <<elv, tx>>

InitPulse ==
  /\ elv = decoder_init
  /\ mebus = mebus_init
  /\ stdout = <<>>
  /\ log = <<>>
  /\ tx = [ frame |-> <<>>, sent |-> <<>>, data |-> <<>>, kind |-> "none",
            arg |-> 0, phase |-> "none", emitted0 |-> FALSE,
            emitted |-> FALSE ]
  /\ air = air_init("pulses", <<>>)
  /\ hist = hist_init

NextPulse == MebusPulse

SpecPulse == InitPulse /\ [][NextPulse]_vars

(***************************************************************************)
(* A client of the class decode_mebus.decoder.  The decoder is fed the     *)
(* pulses of one transmission (sync block, start bit, the bits of a frame, *)
(* silence), and between two pulses the client may call the methods        *)
(* process() itself never calls: popbits(num), expect_eon() and decode(),  *)
(* which take bits off self.data.  tx records the last call: the method,   *)
(* its argument, what it returned and whether it raised.                   *)
(***************************************************************************)
MaxCalls == 2
CallNums == {0, 1, 4}

\* the frames transmitted: type 0 with every nibble 0, and the first reading
\* of the repository's tests
CallFrames ==
  { MkFrame(0, FixCheck(0, BaseDec("zero", 0))),
    MkFrame(1, FixCheck(1, capture_1)) }

\* ON and OFF pulse lengths of a bit: a 0 bit is an OFF pulse below the
\* border of the sync block (66), a 1 bit one above it
RECURSIVE BitPulses(_)
BitPulses(bits) ==
  IF bits = <<>> THEN <<>>
  ELSE <<42, IF Head(bits) = 0 THEN 44 ELSE 88>> \o BitPulses(Tail(bits))

\* sync block, start bit, the bits, and an ON pulse followed by silence
\* longer than pulse_limit (132)
FramePulses(bits) ==
  <<42, 22, 42, 22, 42, 44>> \o <<42, 88>> \o BitPulses(bits) \o <<42, 140>>

calls_init(f) ==
  [ frame |-> f, calls |-> 0, method |-> "none", num |-> 0, val |-> 0,
    ok |-> FALSE, raised |-> FALSE ]

\* the calls of process() for the next pulse of the transmission
CallsPulse ==
  /\ air.run = "calls"
  /\ air.script # <<>>
  /\ \E r \in {m_feed(mebus, IF air.level = 0 THEN NoiseLevel + 1
                              ELSE NoiseLevel, Head(air.script))} :
         /\ mebus' = r.self
         /\ stdout' = r.out
         /\ log' = r.log
  /\ air' = [air EXCEPT !.level = 1 - @, !.script = Tail(@)]
  /\ UNCHANGED <<elv, tx, hist>>

\* an OFF pulse of a data bit comes out no longer than the jitter; the
\* carrier comes back once more and the transmission ends there
CallsGarble ==
  /\ air.run = "calls"
  /\ air.level = 1
  /\ mebus.decoder_state = "data"
  /\ Len(air.script) > 1
  /\ \E r \in {m_feed(mebus, NoiseLevel, Jitter)} :
         /\ mebus' = r.self
         /\ stdout' = r.out
         /\ log' = r.log
  /\ air' = [air EXCEPT !.level = 0, !.script = <<42>>]
  /\ UNCHANGED <<elv, tx, hist>>

\* the client calls dec.popbits(num)
MebusPopbits ==
  /\ air.run = "calls"
  /\ tx.calls < MaxCalls
  /\ \E num \in CallNums :
       \E r \in {m_popbits(mebus.data, num)} :
         /\ mebus' = [mebus EXCEPT !.data = r.data]
         /\ stdout' = <<>>
         /\ log' = r.log
         /\ tx' = [tx EXCEPT !.calls = @ + 1, !.method = "popbits",
                             !.num = num, !.val = r.val, !.ok = FALSE,
                             !.raised = r.exc]
  /\ UNCHANGED <<elv, air, hist>>

\* the client calls dec.expect_eon()
MebusExpectEon ==
  /\ air.run = "calls"
  /\ tx.calls < MaxCalls
  /\ \E r \in {m_expect_eon(mebus.data)} :
         /\ mebus' = [mebus EXCEPT !.data = r.data]
         /\ stdout' = <<>>
         /\ log' = r.log
         /\ tx' = [tx EXCEPT !.calls = @ + 1, !.method = "expect_eon",
                             !.num = 0, !.val = 0, !.ok = r.ok,
                             !.raised = r.exc]
  /\ UNCHANGED <<elv, air, hist>>

\* the client calls dec.decode()
MebusDecode ==
  /\ air.run = "calls"
  /\ tx.calls < MaxCalls
  /\ \E r \in {m_decode(mebus.data)} :
         /\ mebus' = [mebus EXCEPT !.data = r.data]
         /\ stdout' = r.out
         /\ log' = r.log
         /\ tx' = [tx EXCEPT !.calls = @ + 1, !.method = "decode",
                             !.num = 0, !.val = 0, !.ok = FALSE,
                             !.raised = r.exc]
  /\ UNCHANGED <<elv, air, hist>>

InitCalls ==
  /\ elv = decoder_init
  /\ mebus = mebus_init
  /\ stdout = <<>>
  /\ log = <<>>
  /\ hist = hist_init
  /\ \E f \in CallFrames :
       /\ tx = calls_init(f)
       /\ air = air_init("calls", FramePulses(f))

NextCalls ==
  CallsPulse \/ CallsGarble \/ MebusPopbits \/ MebusExpectEon \/ MebusDecode

SpecCalls == InitCalls /\ [][NextCalls]_vars

\* Properties of the client's calls.  On data without None the methods of
\* decode_mebus do what those of decode_elv_wde1 do, and a call raises only
\* when self.data held None.
NoneFree(data) == \A i \in 1..Len(data) : data[i] # None

MebusCallsAgree ==
  (air.run = "calls" /\ NoneFree(mebus.data)) =>
    \E a \in {m_decode(mebus.data)}, b \in {decode(mebus.data)} :
      a.data = b.data /\ a.out = b.out /\ a.log = b.log /\ ~a.exc

MebusRaisesOnNone ==
  [][(air.run = "calls" /\ tx'.calls # tx.calls /\ tx'.raised)
       => ~NoneFree(mebus.data)]_vars

\* decode() called on the complete frame (decoder in 'repeat_1' after the
\* silence) printed its record and left self.data empty
MebusDecodePrinted ==
  /\ air.run = "calls" /\ tx.method = "decode" /\ tx.calls = 1
  /\ mebus.decoder_state = "repeat_1"
  /\ Len(stdout) = 1 /\ mebus.data = <<>> /\ log = <<"DECODE">>

\* decode() raised at the None an invalid pulse had left in self.data
MebusDecodeRaised ==
  /\ air.run = "calls" /\ tx.method = "decode" /\ tx.raised
  /\ stdout = <<>>

MebusPopbitsRaised ==
  /\ air.run = "calls" /\ tx.method = "popbits" /\ tx.raised /\ tx.num = 4

MebusExpectEonRaised ==
  /\ air.run = "calls" /\ tx.method = "expect_eon" /\ tx.raised /\ log = <<>>

(***************************************************************************)
(* Claims about decode() of decode_elv_wde1.py.                            *)
(***************************************************************************)
Decoded == tx.phase = "decoded"
LastRecord == stdout[1]

\* C1: a record is emitted only if every validation passed: every
\* end-of-nibble bit of the layout is 1, the XOR over the type and the
\* layout's nibbles is 0, and (sum + 5) & 0xF equals the sum nibble of the
\* bit sequence; whenever one of them fails nothing is emitted.
C1_EmitOnlyIfValid ==
  (Decoded /\ tx.emitted) =>
     RefEonOk(tx.sent) /\ RefXorOk(tx.sent) /\ RefSumOk(tx.sent)

\* a frame with a wrong XOR check nibble was decoded and nothing was emitted
C1_Witness ==
  /\ Decoded /\ tx.kind = "garbled" /\ ~tx.emitted /\ stdout = <<>>
  /\ RefEonOk(tx.sent) /\ RefSumOk(tx.sent) /\ ~RefXorOk(tx.sent)

\* C2: field decode of a validated frame with nibbles dec[0..]: address =
\* dec[0] & 7, temperature (dec[3]*10 + dec[2]).dec[1], negative iff
\* dec[0] & 8; type 1: humidity (dec[6]*10 + dec[5]).dec[4]; type 7: humidity
\* dec[5]*10 + dec[4], wind (dec[8]*10 + dec[7]).dec[6], rain_sum =
\* dec[11]*256 + dec[10]*16 + dec[9]; nibbles are read LSB first.  The two
\* captured readings of the tests come out as 6 / 20.2 / 61.7 and
\* 1 / 17.6 / 54 / 0 / 1634.
C2_FieldDecode ==
  (Decoded /\ tx.emitted) =>
    LET dec == RefDec(tx.sent)
        ty  == RefType(tx.sent)
        rec == LastRecord
    IN  /\ rec.sensor_type = sensor_types[ty + 1]
        /\ rec.address = dec[1] % 8
        /\ rec.temperature =
             << IF (dec[1] \div 8) % 2 = 1 THEN "-" ELSE "",
                dec[4] * 10 + dec[3], dec[2] >>
        /\ (ty = 1 => rec.humidity = << dec[7] * 10 + dec[6], dec[5] >>)
        /\ (ty = 7 =>
              /\ rec.humidity = << dec[6] * 10 + dec[5] >>
              /\ rec.wind = << dec[9] * 10 + dec[8], dec[7] >>
              /\ rec.rain_sum = << dec[12] * 256 + dec[11] * 16 + dec[10] >>)
        /\ (ty = 1 /\ SubSeq(dec, 1, 7) = SubSeq(capture_1, 1, 7) =>
              /\ rec.sensor_type = "Thermo/Hygro" /\ rec.address = 6
              /\ rec.temperature = <<"", 20, 2>> /\ rec.humidity = <<61, 7>>)
        /\ (ty = 7 /\ SubSeq(dec, 1, 12) = SubSeq(capture_2, 1, 12) =>
              /\ rec.sensor_type = "Kombi" /\ rec.address = 1
              /\ rec.temperature = <<"", 17, 6>> /\ rec.humidity = <<54>>
              /\ rec.wind = <<0, 0>> /\ rec.rain_sum = <<1634>>)

\* the Kombi capture was decoded with a negative-temperature variant of it
C2_Witness ==
  /\ Decoded /\ tx.emitted /\ RefType(tx.sent) = 7
  /\ LastRecord.rain_sum = <<1634>> /\ LastRecord.humidity = <<54>>
  /\ LastRecord.temperature = <<"-", 17, 6>> /\ LastRecord.address = 7

\* C3 as stated: after a frame was accepted, the same frame with any single
\* bit inverted is rejected.
C3_AnyFlipRejected ==
  (Decoded /\ tx.kind = "flip" /\ tx.emitted0) => ~tx.emitted

\* C3 amended: after a frame was accepted, the same frame with one bit
\* inverted outside the type nibble (a bit of a data nibble, of any
\* end-of-nibble marker or of the sum nibble) is rejected, while inverting
\* the most significant bit of the type nibble, which decode masks away,
\* is never detected.
C3_FlipOutsideTypeRejected ==
  (Decoded /\ tx.kind = "flip" /\ tx.emitted0) =>
     /\ (tx.arg > 4 => ~tx.emitted)
     /\ (tx.arg = 4 => tx.emitted)

\* an accepted frame was rejected after the inversion of its last sum bit
C3_Witness ==
  /\ Decoded /\ tx.kind = "flip" /\ tx.emitted0 /\ ~tx.emitted
  /\ tx.arg = Len(tx.frame) /\ stdout = <<>>

\* C4: decode() on a bit sequence with fewer bits than the layout selected
\* by its first nibble requires (5 + 5 per nibble + 4) emits no record, also
\* when popbits returned 0 for a missing nibble and an end-of-nibble read
\* still found a 1 bit.
C4_ShortNoRecord ==
  (Decoded /\ Len(tx.sent) < RefNeed(tx.sent)) => ~tx.emitted

\* a frame cut inside its last nibbles: popbits reported exhausted data for
\* a nibble, the next end-of-nibble read found a 1, and nothing was emitted
C4_Witness ==
  /\ Decoded /\ tx.kind = "cut" /\ ~tx.emitted /\ tx.emitted0
  /\ Len(log) >= 4
  /\ log[1] = "DECODE"
  /\ log[2] = "data exhausted" /\ log[3] = "data exhausted"
  /\ log[Len(log)] = "end of nibble is not 1"
  /\ tx.data = <<>>

\* C5: a bit sequence that starts with a complete frame (type nibble, the
\* layout's nibbles each followed by a 1, the sum nibble) with XOR 0 and the
\* sum rule satisfied is accepted, exactly one record is emitted, whatever
\* bits follow the frame.
C5_ValidAccepted ==
  (Decoded /\ RefValid(tx.sent)) =>
     /\ tx.emitted
     /\ Len(stdout) = 1
     /\ tx.data = SubSeq(tx.sent, RefNeed(tx.sent) + 1, Len(tx.sent))

\* a frame followed by two further bits was accepted, the bits left over
C5_Witness ==
  /\ Decoded /\ tx.kind = "tail" /\ tx.emitted /\ Len(stdout) = 1
  /\ Len(tx.data) = 2 /\ RefType(tx.sent) = 7

(***************************************************************************)
(* Claims about process() of both decoders.  log and stdout hold what the  *)
(* last call of process logged and printed.                                *)
(***************************************************************************)
\* the last call of decode_elv_wde1's process could not decode a bit, or
\* ran decode() on a frame that was then not printed
ElvRejectedCall ==
  /\ air.run \in {"elv", "stream"}
  /\ \/ Logged(log, "bitval = -1")
     \/ Logged(log, "DECODE") /\ stdout = <<>>

\* the last call of decode_elv_wde1's process met an undecodable bit or
\* found no edge
ElvMalformedCall ==
  /\ air.run \in {"elv", "stream"}
  /\ Logged(log, "bitval = -1") \/ Logged(log, "bitval = -10")

\* the last call of decode_mebus's process ended a pulse that was refused:
\* an invalid pulse length, a sync block that failed verification, a start
\* bit that is not 1 or a repeat bit that is not 0
MebusMalformedCall ==
  /\ air.run = "mebus"
  /\ \/ Logged(log, "WAITING...") /\ mebus.pulse_len = 0
     \/ Logged(log, "off pulse too long")
     \/ Logged(log, "number of ON/OFF pulses in sync block != 3")
     \/ Logged(log, "high jitter in sync block (ON)")
     \/ Logged(log, "last OFF in sync is too short")
     \/ Logged(log, "Start bit is not 1")
     \/ Logged(log, "Repeat bit is not 0")

\* C6: in both decoders, after a rejection (undecodable bit, invalid pulse,
\* failed sync verification, bad start or repeat bit, a frame decode()
\* rejects) the state at the end of that call of process is the freshly
\* initialised one: decoder state 'wait', empty data, empty sync pulse
\* lists, sync counter 0.
C6_RejectionRestoresInit ==
  /\ ElvRejectedCall =>
       /\ elv.decoder_state = decoder_init.decoder_state
       /\ elv.data = decoder_init.data
       /\ elv.sync_count = decoder_init.sync_count
  /\ MebusMalformedCall =>
       /\ mebus.decoder_state = mebus_init.decoder_state
       /\ mebus.data = mebus_init.data
       /\ mebus.sync_on = mebus_init.sync_on
       /\ mebus.sync_off = mebus_init.sync_off

\* C7: when the sample stream has ended (main() left its read loop and
\* closed the file, the driver's flush included) the frame in progress was
\* decoded or discarded: the decoder is not left in 'data'.
C7_EndOfStreamFlushes == air.eof => elv.decoder_state # "data"

\* the longest frame of protocol A: type, 14 nibbles, sum
MaxFrameBits == 5 + 5 * 14 + 4

\* C8: the length of the accumulated bit sequence is bounded by a constant
\* that does not depend on the length of the stream: no state holds more
\* bits than the longest frame has.
C8_DataBounded == Len(elv.data) <= MaxFrameBits

\* C9: protocol B prints for a packet only if the frames of its repeated
\* transmissions are bit-for-bit identical: no two lines printed for the
\* transmissions of one packet differ.
C9_RepeatsIdentical ==
  \A i, j \in 1..Len(hist.packet) : hist.packet[i] = hist.packet[j]

\* C10: in both decoders process completes for every sample in every
\* reachable state, and a malformed condition met during the call
\* (protocol A: undecodable bit or no edge; protocol B: invalid pulse
\* length, sync jitter, short last OFF, start bit not 1, repeat bit not 0)
\* leaves the decoder in 'wait' at the end of the same call.
C10_MalformedLeavesWait ==
  /\ elv.decoder_state \in {"wait", "sync", "data"}
  /\ mebus.decoder_state
       \in {"wait", "sync", "start", "data", "repeat_1", "repeat_2"}
  /\ ElvMalformedCall => elv.decoder_state = "wait"
  /\ MebusMalformedCall => mebus.decoder_state = "wait"

\* protocol B refused a start bit and is in 'wait', after it had locked
\* sync again following an earlier rejection
C10_Witness ==
  /\ MebusMalformedCall /\ Logged(log, "Start bit is not 1")
  /\ ~Logged(log, "off pulse too long")
  /\ mebus.decoder_state = "wait" /\ hist.relocked

(***************************************************************************)
(* Claims about the sync and bit tests.  A step of ElvProcess or           *)
(* MebusProcess is one call of process; the unprimed decoder is the object *)
(* before the call, the primed one the object after it.                    *)
(***************************************************************************)
ElvStep ==
  /\ air.run \in {"elv", "stream"}
  /\ air.wave # <<>>
  /\ air'.wave = Tail(air.wave)

\* C11: decoder_state = 'data' implies sync_count > 6 in every reachable
\* state; the decoder goes from 'sync' to 'data' only with more than 6
\* counted sync bits; and a call that runs the sync test in 'wait' (the
\* buffer is filled) leaves sync_count at 0.
C11_SyncCountGuardsData ==
  /\ [](elv.decoder_state = "data" => elv.sync_count > 6)
  /\ [][ ElvStep =>
          /\ (elv.decoder_state = "sync" /\ elv'.decoder_state = "data"
                => elv.sync_count > 6 /\ elv'.sync_count = elv.sync_count)
          /\ (elv.decoder_state = "wait" /\ elv.pulse_len >= 35
                => elv'.sync_count = 0) ]_vars

\* 'data' was entered with seven counted sync bits after an earlier
\* rejection had sent the decoder back to 'wait'
C11_Witness ==
  /\ air.run = "elv" /\ elv.decoder_state = "data" /\ elv.sync_count = 7
  /\ hist.rejected /\ hist.relocked /\ Logged(log, "DATA")

MebusStep ==
  /\ air.run = "mebus"
  /\ air.wave # <<>>
  /\ air'.wave = Tail(air.wave)

\* the edges of the claim: WAIT->SYNC, SYNC->START, START->DATA,
\* DATA->REPEAT_1, REPEAT_1->REPEAT_2, REPEAT_2->START, and back to WAIT
\* from SYNC, START, DATA and REPEAT_2
MebusEdges ==
  { <<"wait", "sync">>, <<"sync", "start">>, <<"start", "data">>,
    <<"data", "repeat_1">>, <<"repeat_1", "repeat_2">>,
    <<"repeat_2", "start">> }
    \cup { <<st, "wait">> : st \in {"sync", "start", "data", "repeat_2"} }

\* the OFF pulse that ends with the next sample lasted pulse_len + 1
\* samples; its bit value by the thresholds of the decoder
OffPulseLen(self) == self.pulse_len + 1

OffPulseBit(self) ==
  LET d == OffPulseLen(self)
  IN  IF d > self.jitter /\ 2 * d < self.pulse_border2 THEN 0
      ELSE IF 2 * d > self.pulse_border2 /\ d < self.pulse_limit THEN 1
      ELSE None

\* C12: over any sample stream the decoder state of protocol B changes only
\* along the edges WAIT->SYNC, SYNC->START, START->DATA, DATA->REPEAT_1,
\* REPEAT_1->REPEAT_2, REPEAT_2->START and from SYNC, START, DATA or
\* REPEAT_2 back to WAIT; DATA is entered only from START after a start bit
\* of value 1, START only after a verified sync block (three ON and three
\* OFF pulses collected) or a repeat bit of value 0.
C12_StateEdges ==
  [][ (MebusStep /\ mebus'.decoder_state # mebus.decoder_state) =>
        /\ <<mebus.decoder_state, mebus'.decoder_state>> \in MebusEdges
        /\ (mebus'.decoder_state = "data" =>
              /\ mebus.decoder_state = "start"
              /\ OffPulseBit(mebus) = 1)
        /\ (mebus'.decoder_state = "start" =>
              \/ /\ mebus.decoder_state = "sync"
                 /\ Len(mebus.sync_on) = 3 /\ Len(mebus.sync_off) = 2
                 /\ Logged(log', "SYNC!")
              \/ /\ mebus.decoder_state = "repeat_2"
                 /\ OffPulseBit(mebus) = 0) ]_vars

\* START was entered from REPEAT_2 on a repeat bit 0, after the first
\* transmission of the packet had been printed
C12_Witness ==
  /\ air.run = "mebus" /\ mebus.decoder_state = "start"
  /\ Logged(log, "REPEAT") /\ hist.packet # <<>>

\* a step in which an ON pulse starts while a bit is awaited: bitval
\* classifies the OFF pulse that ended
MebusBitStep ==
  /\ air.run \in {"mebus", "pulses"}
  /\ mebus.signal_state = 0 /\ mebus'.signal_state = 1
  /\ mebus.decoder_state \in {"start", "data", "repeat_2"}

\* what the step took the OFF pulse for, read from what it did: the warning
\* of an invalid pulse, the bit appended in DATA, the bit START or REPEAT_2
\* saw
BitTaken ==
  IF Logged(log', "off pulse too long") THEN None
  ELSE IF mebus.decoder_state = "data" THEN mebus'.data[Len(mebus'.data)]
  ELSE IF mebus.decoder_state = "start"
  THEN (IF mebus'.decoder_state = "data" THEN 1 ELSE 0)
  ELSE (IF mebus'.decoder_state = "start" THEN 0 ELSE 1)

\* C13 as stated: an OFF pulse of duration d is a 0 bit when
\* d < pulse_border, a 1 bit when pulse_border < d < pulse_limit, and is
\* otherwise invalid and resets the decoder to WAIT.
C13_BorderSplitsBits ==
  [][ MebusBitStep =>
        LET d == OffPulseLen(mebus)
        IN  /\ 2 * d < mebus.pulse_border2 => BitTaken = 0
            /\ (2 * d > mebus.pulse_border2 /\ d < mebus.pulse_limit)
                 => BitTaken = 1
            /\ (2 * d = mebus.pulse_border2 \/ d >= mebus.pulse_limit)
                 => BitTaken = None /\ mebus'.decoder_state = "wait" ]_vars

\* C13, amended: an OFF pulse of duration d is a 0 bit when
\* jitter < d < pulse_border, a 1 bit when pulse_border < d < pulse_limit;
\* every other duration, those of at most the jitter included, is an
\* invalid pulse that resets the decoder to WAIT with empty sync lists.
C13_JitterBorderSplitsBits ==
  [][ MebusBitStep =>
        LET d == OffPulseLen(mebus)
        IN  /\ (d > mebus.jitter /\ 2 * d < mebus.pulse_border2)
                 => BitTaken = 0
            /\ (2 * d > mebus.pulse_border2 /\ d < mebus.pulse_limit)
                 => BitTaken = 1
            /\ (d <= mebus.jitter \/ 2 * d = mebus.pulse_border2
                  \/ d >= mebus.pulse_limit)
                 => /\ BitTaken = None
                    /\ mebus'.decoder_state = "wait"
                    /\ mebus'.sync_on = <<>> /\ mebus'.sync_off = <<>> ]_vars

\* a pulse was found invalid after sync had been locked a second time
C13_Witness ==
  /\ air.run = "pulses"
  /\ Logged(log, "off pulse too long")
  /\ mebus.decoder_state = "wait"
  /\ mebus.pulse_border2 = 2 * 66 /\ mebus.pulse_limit = 132
  /\ hist.relocked

\* a step taken by protocol B in SYNC
MebusSyncStep ==
  /\ air.run \in {"mebus", "pulses"}
  /\ mebus.decoder_state = "sync"
  /\ mebus' # mebus

\* the step leaves SYNC for WAIT with the sync lists emptied, or is in SYNC
\* with fewer than three OFF pulses
MebusSyncElse ==
  /\ mebus'.decoder_state = "start"
       => Len(mebus'.sync_on) = 3 /\ Len(mebus'.sync_off) = 3
  /\ mebus'.decoder_state # "start"
       => \/ /\ mebus'.decoder_state = "wait"
             /\ mebus'.sync_on = <<>> /\ mebus'.sync_off = <<>>
          \/ /\ mebus'.decoder_state = "sync"
             /\ Len(mebus'.sync_off) < 3

\* pulse_border is 1.5 times the third OFF pulse, pulse_limit twice that
MebusCalibrated ==
  /\ mebus'.pulse_border2 = 3 * mebus'.sync_off[3]
  /\ mebus'.pulse_limit = mebus'.pulse_border2

\* C14 as stated: SYNC is left for START only with three ON and three OFF
\* durations, every ON duration within the jitter of the mean of the three,
\* and the third OFF duration at least twice the mean of the first two;
\* then pulse_border = 1.5 x third OFF and pulse_limit = 2 x pulse_border;
\* otherwise the decoder resets to WAIT with empty sync lists.  (The means
\* are compared after multiplying through by 3 and by 2.)
C14_SyncCalibration ==
  [][ MebusSyncStep =>
        /\ MebusSyncElse
        /\ mebus'.decoder_state = "start" =>
             LET on == mebus'.sync_on
                 off == mebus'.sync_off
             IN  /\ \A i \in 1..3 :
                      Abs(3 * on[i] - (on[1] + on[2] + on[3]))
                        <= 3 * mebus.jitter
                 /\ off[3] >= off[1] + off[2]
                 /\ MebusCalibrated ]_vars

\* C14, amended: the means are the integer quotients the code computes
\* (sum of the three ON durations divided by 3, sum of the first two OFF
\* durations divided by 2, both rounded down).  SYNC is left for START
\* exactly when the OFF pulse that ends is the third, lies between the
\* jitter and pulse_limit, three ON durations were collected, each within
\* the jitter of their rounded mean, and the third OFF duration is at least
\* twice the rounded mean of the first two; then pulse_border = 1.5 x third
\* OFF and pulse_limit = 2 x pulse_border; a step in SYNC that does not
\* reach START either keeps collecting (fewer than three OFF durations) or
\* resets to WAIT with empty sync lists.
C14_SyncCalibrationRounded ==
  [][ MebusSyncStep =>
        /\ MebusSyncElse
        /\ mebus'.decoder_state = "start" <=>
             /\ mebus.signal_state = 0 /\ mebus'.signal_state = 1
             /\ Len(mebus.sync_on) = 3 /\ Len(mebus.sync_off) = 2
             /\ OffPulseLen(mebus) > mebus.jitter
             /\ OffPulseLen(mebus) < mebus.pulse_limit
             /\ LET on == mebus.sync_on
                    off == Append(mebus.sync_off, OffPulseLen(mebus))
                    onl == (on[1] + on[2] + on[3]) \div 3
                    offl == (off[1] + off[2]) \div 2
                IN  /\ \A i \in 1..3 : Abs(onl - on[i]) <= mebus.jitter
                    /\ off[3] >= 2 * offl
                    /\ mebus'.sync_on = on /\ mebus'.sync_off = off
        /\ mebus'.decoder_state = "start" => MebusCalibrated ]_vars

\* sync was locked on pulses at the edge of both tolerances
C14_Witness ==
  /\ air.run = "pulses"
  /\ mebus.decoder_state = "start"
  /\ mebus.sync_on = <<21, 42, 61>>
  /\ mebus.sync_off = <<22, 23, 44>>
  /\ mebus.pulse_border2 = 2 * 66 /\ mebus.pulse_limit = 132

\* C15: protocol A leaves WAIT for SYNC only when the average of samples
\* 0..19 of the window is strictly greater than the average of samples
\* 26..32, than the range of samples 0..19 and than the range of samples
\* 26..32; on_level is then the midpoint of the two averages and pulse_len
\* is 0.  A window of constant samples does not lock sync.
C15_SyncNeedsStrictlyGreater ==
  [][ (ElvStep /\ elv.decoder_state = "wait" /\ elv'.decoder_state = "sync") =>
        LET avh == signal_avr(elv'.buf, 0, 20)
            avl == signal_avr(elv'.buf, 26, 33)
            rgh == signal_range(elv', 0, 20).val
            rgl == signal_range(elv', 26, 33).val
        IN  /\ avh > avl /\ avh > rgh /\ avh > rgl
            /\ 2 * elv'.on_level = avh + avl
            /\ elv'.pulse_len = 0
            /\ \E i \in 1..35 : elv'.buf[i] # elv'.buf[1] ]_vars

\* a call of process() of protocol A that applies bitval to the window
ElvBitStep ==
  /\ ElvStep
  /\ elv.decoder_state # "wait"
  /\ elv.pulse_len >= 35

\* the value bitval returned, as process() logged it
ElvBitTaken ==
  IF Logged(log', "bitval = -10") THEN -10
  ELSE IF Logged(log', "bitval = -1") THEN -1
  ELSE IF Logged(log', "bitval = 1") THEN 1
  ELSE 0

\* the window bitval saw: none of its first 4 samples exceeds on_level
WinNoEdge == \A i \in 1..4 : elv'.buf[i] <= elv.on_level

\* the offset of the edge, and the averages of the segments after it
WinSkip ==
  CHOOSE k \in 0..3 : /\ elv'.buf[k + 1] > elv.on_level
                      /\ \A j \in 0..(k - 1) : elv'.buf[j + 1] <= elv.on_level
WinLead == signal_avr(elv'.buf, WinSkip, WinSkip + 10)
WinMid == signal_avr(elv'.buf, WinSkip + 13, WinSkip + 22)
WinTrail == signal_avr(elv'.buf, WinSkip + 25, 33)

\* C16 as stated: without an edge in the first 4 samples bitval gives -10;
\* otherwise 1 if the mid average is closer to the trail average than to
\* the lead average, 0 if it is closer to the lead average, and -1 if it is
\* equally distant from both.
C16_BitByDistance ==
  [][ ElvBitStep =>
        IF WinNoEdge THEN ElvBitTaken = -10
        ELSE /\ Abs(WinMid - WinTrail) < Abs(WinMid - WinLead)
                  => ElvBitTaken = 1
             /\ Abs(WinMid - WinLead) < Abs(WinMid - WinTrail)
                  => ElvBitTaken = 0
             /\ Abs(WinMid - WinLead) = Abs(WinMid - WinTrail)
                  => ElvBitTaken = -1 ]_vars

\* C16, amended: without an edge in the first 4 samples bitval gives -10;
\* otherwise -1 exactly when the lead average is not above the trail
\* average, whatever the mid average; with the lead above the trail, 1 if
\* the mid average is closer to the trail than to the lead, else 0 (a mid
\* average equally distant from both gives 0).
C16_BitByLeadAndDistance ==
  [][ ElvBitStep =>
        IF WinNoEdge THEN ElvBitTaken = -10
        ELSE IF WinLead <= WinTrail THEN ElvBitTaken = -1
        ELSE IF Abs(WinMid - WinTrail) < Abs(WinMid - WinLead)
        THEN ElvBitTaken = 1
        ELSE ElvBitTaken = 0 ]_vars

\* the window holds a bit whose mid average is halfway between lead and
\* trail: bitval took it for a 0, the sync counter went up
C16_Witness ==
  /\ air.run = "elv"
  /\ elv.decoder_state = "sync"
  /\ elv.sync_count > 0
  /\ Logged(log, "bitval = 0")
  /\ LET skip == -elv.pulse_len
         aa == signal_avr(elv.buf, skip, skip + 10)
         ma == signal_avr(elv.buf, skip + 13, skip + 22)
         ea == signal_avr(elv.buf, skip + 25, 33)
     IN  /\ skip \in 0..3
         /\ aa > ea
         /\ Abs(ma - aa) = Abs(ma - ea)

\* C17: whenever protocol B is back in WAIT, pulse_border and pulse_limit
\* are at their initial values 0 and 10000, so that the pulses of the next
\* preamble are judged as by a freshly initialised decoder.
C17_ResetRestoresThresholds ==
  (air.run = "mebus" /\ mebus.decoder_state = "wait") =>
     /\ mebus.pulse_border2 = mebus_init.pulse_border2
     /\ mebus.pulse_limit = mebus_init.pulse_limit

\* a call of process() of protocol B that lengthens data
MebusGrows == MebusStep /\ Len(mebus'.data) > Len(mebus.data)

\* a call of process() of protocol A that lengthens data
ElvGrows == ElvStep /\ Len(elv'.data) > Len(elv.data)

\* C18: in both decoders data holds only the values 0 and 1, and it grows
\* only while the decoder is in DATA: a pulse or segment classified as
\* invalid or undecodable adds no element.
C18_DataIsBits ==
  /\ [](/\ \A i \in 1..Len(elv.data) : elv.data[i] \in {0, 1}
        /\ \A i \in 1..Len(mebus.data) : mebus.data[i] \in {0, 1})
  /\ [][ /\ ElvGrows =>
              /\ elv.decoder_state = "data" /\ elv'.decoder_state = "data"
              /\ ~Logged(log', "bitval = -1") /\ ~Logged(log', "bitval = -10")
         /\ MebusGrows =>
              /\ mebus.decoder_state = "data" /\ mebus'.decoder_state = "data"
              /\ ~Logged(log', "off pulse too long") ]_vars

\* C19: a 1 bit received by protocol A in SYNC while sync_count <= 6 is
\* ignored: the decoder stays in SYNC with sync_count unchanged, and a 0
\* bit received in SYNC counts whatever came before, so the zeros before
\* and after an early 1 bit add up.
C19_EarlyOneIgnored ==
  [][ (ElvBitStep /\ elv.decoder_state = "sync") =>
        /\ (ElvBitTaken = 1 /\ elv.sync_count <= 6)
             => /\ elv'.decoder_state = "sync"
                /\ elv'.sync_count = elv.sync_count
                /\ elv'.data = elv.data
        /\ ElvBitTaken = 0
             => /\ elv'.decoder_state = "sync"
                /\ elv'.sync_count = elv.sync_count + 1 ]_vars

\* the last call took a 1 bit after three zero bits: the decoder is still
\* in SYNC and still counts three
C19_Witness ==
  /\ air.run = "elv"
  /\ elv.decoder_state = "sync"
  /\ elv.sync_count = 3
  /\ Logged(log, "bitval = 1")
  /\ ~Logged(log, "DATA")

\* the sample of the step is at or below the noise level
MebusOffSample == Head(air.wave) <= mebus.noise_level

\* C20: in REPEAT_1 no OFF sample returns protocol B to WAIT; REPEAT_1 is
\* left only at the end of the next ON pulse, for REPEAT_2; and in REPEAT_2
\* an OFF sample resets to WAIT exactly when the gap has grown longer than
\* 2 x pulse_limit.  So under silence the decoder stays in REPEAT_1.
C20_Repeat1OutlastsSilence ==
  [][ MebusStep =>
        /\ mebus.decoder_state = "repeat_1" =>
             /\ mebus'.decoder_state \in {"repeat_1", "repeat_2"}
             /\ mebus'.decoder_state = "repeat_2"
                  <=> (mebus.signal_state = 1 /\ MebusOffSample)
             /\ mebus'.data = mebus.data
        /\ (mebus.decoder_state = "repeat_2" /\ mebus.signal_state = 0
              /\ MebusOffSample) =>
             /\ mebus'.decoder_state
                  = IF mebus.pulse_len + 1 > 2 * mebus.pulse_limit
                    THEN "wait" ELSE "repeat_2" ]_vars

\* the decoder is in REPEAT_1 after a silence longer than the gap that
\* resets REPEAT_2
C20_Witness ==
  /\ air.run = "mebus"
  /\ mebus.decoder_state = "repeat_1"
  /\ mebus.signal_state = 0
  /\ mebus.pulse_len > 2 * mebus.pulse_limit

\* C21: for every validated Kombi frame (type 7) the rain detector of the
\* emitted record is false, whatever the first data nibble dec[0] is:
\* (dec[0] & 2) == 1 never holds, so bit 1 of dec[0] does not change it.
C21_RainDetectorAlwaysFalse ==
  (Decoded /\ tx.emitted /\ RefType(tx.sent) = 7) =>
     LastRecord.rain_detector = <<FALSE>>

\* a Kombi frame whose first data nibble has bit 1 set was validated and
\* its record says the rain detector is false
C21_Witness ==
  /\ Decoded /\ tx.emitted /\ tx.kind = "orig"
  /\ RefType(tx.sent) = 7
  /\ (RefDec(tx.sent)[1] \div 2) % 2 = 1
  /\ LastRecord.sensor_type = "Kombi"
  /\ LastRecord.rain_detector = <<FALSE>>

====
